---- MODULE Spec2Model ----
(***************************************************************************)
(* Exact samplers for projection DPPs (dppy/finite_dpps/                   *)
(* projection_kernel_sampler.py): the dispatcher projection_kernel_sampler *)
(* and the three chain-rule samplers (Cholesky, Gram-Schmidt, Schur).      *)
(* Floating point numbers are modelled by exact rationals <<num, den>>,    *)
(* complex numbers by pairs <<re, im>> of rationals; one action is one     *)
(* iteration of a sampler's loop.                                          *)
(***************************************************************************)
EXTENDS Integers, Sequences, FiniteSets, TLC

(* ------------------------------ bounds --------------------------------- *)
\* sizes the caller may ask for are None or 0..MaxSizeArg
MaxSizeArg == 5
\* number of calls the caller makes with the same arguments
MaxCalls == 2

(* --------------------------- evaluated arrays --------------------------- *)
\* the array f with all its entries computed (TLC keeps [x \in S |-> e] as an
\* unevaluated expression otherwise and recomputes e at every f[x])
Array(f) == f @@ <<>>

(* ------------------------- rational arithmetic -------------------------- *)
Abs(x) == IF x < 0 THEN -x ELSE x

RECURSIVE GCD(_, _)
GCD(a, b) == IF b = 0 THEN a ELSE GCD(b, a % b)

\* the fraction n/d in lowest terms with a positive denominator
RNorm(n, d) ==
  IF n = 0 THEN <<0, 1>>
  ELSE IF d < 0 THEN <<(-n) \div GCD(Abs(n), -d), (-d) \div GCD(Abs(n), -d)>>
  ELSE <<n \div GCD(Abs(n), d), d \div GCD(Abs(n), d)>>

Q(n, d) == RNorm(n, d)
R0 == <<0, 1>>
R1 == <<1, 1>>
RInt(n) == <<n, 1>>

RAdd(a, b) ==
  IF a[2] = b[2] THEN RNorm(a[1] + b[1], a[2])
  ELSE RNorm(a[1] * (b[2] \div GCD(a[2], b[2])) + b[1] * (a[2] \div GCD(a[2], b[2])),
             (a[2] \div GCD(a[2], b[2])) * b[2])
RNeg(a) == <<-a[1], a[2]>>
RSub(a, b) ==
  IF a[2] = b[2] THEN RNorm(a[1] - b[1], a[2])
  ELSE RNorm(a[1] * (b[2] \div GCD(a[2], b[2])) - b[1] * (a[2] \div GCD(a[2], b[2])),
             (a[2] \div GCD(a[2], b[2])) * b[2])
RMul(a, b) ==
  IF a[1] = 0 \/ b[1] = 0 THEN <<0, 1>>
  ELSE <<(a[1] \div GCD(Abs(a[1]), b[2])) * (b[1] \div GCD(Abs(b[1]), a[2])),
         (a[2] \div GCD(Abs(b[1]), a[2])) * (b[2] \div GCD(Abs(a[1]), b[2]))>>
RDiv(a, b) ==
  IF b[1] < 0 THEN RMul(a, <<-b[2], -b[1]>>) ELSE RMul(a, <<b[2], b[1]>>)
RAbs(a) == <<Abs(a[1]), a[2]>>
RLt(a, b) == a[1] * b[2] < b[1] * a[2]
RLe(a, b) == a[1] * b[2] <= b[1] * a[2]

\* np.sqrt on the values the samplers take it of (squares of rationals)
ISqrt(n) == CHOOSE r \in 0..n : r * r = n
RSqrt(a) == <<ISqrt(a[1]), ISqrt(a[2])>>

\* np.rint(x).astype(int): round to nearest, ties to even
RRint(a) ==
  LET fl == a[1] \div a[2]
      twice == 2 * (a[1] - fl * a[2])
  IN  IF twice < a[2] THEN fl
      ELSE IF twice > a[2] THEN fl + 1
      ELSE IF fl % 2 = 0 THEN fl ELSE fl + 1

(* -------------------------- complex arithmetic -------------------------- *)
Cx(re, im) == <<re, im>>
C0 == <<R0, R0>>
C1 == <<R1, R0>>
CReal(r) == <<r, R0>>
Re(z) == z[1]
Im(z) == z[2]
CAdd(x, y) == <<RAdd(x[1], y[1]), RAdd(x[2], y[2])>>
CSub(x, y) == <<RSub(x[1], y[1]), RSub(x[2], y[2])>>
CNeg(x) == <<RNeg(x[1]), RNeg(x[2])>>
CMul(x, y) ==
  IF x[2][1] = 0 /\ y[2][1] = 0 THEN <<RMul(x[1], y[1]), R0>>
  ELSE <<RSub(RMul(x[1], y[1]), RMul(x[2], y[2])),
         RAdd(RMul(x[1], y[2]), RMul(x[2], y[1]))>>
Conj(x) == <<x[1], RNeg(x[2])>>
\* x / y = x * conj(y) / |y|^2
CDiv(x, y) ==
  IF x[2][1] = 0 /\ y[2][1] = 0 THEN <<RDiv(x[1], y[1]), R0>>
  ELSE <<RDiv(CMul(x, Conj(y))[1], RAdd(RMul(y[1], y[1]), RMul(y[2], y[2]))),
         RDiv(CMul(x, Conj(y))[2], RAdd(RMul(y[1], y[1]), RMul(y[2], y[2])))>>

(* ------------------------ sums over index ranges ------------------------ *)
\* sum of f[k] for k in lo..hi
RECURSIVE RSum(_, _, _)
RSum(f, lo, hi) == IF hi < lo THEN R0 ELSE RAdd(RSum(f, lo, hi - 1), f[hi])
RECURSIVE CSum(_, _, _)
CSum(f, lo, hi) == IF hi < lo THEN C0 ELSE CAdd(CSum(f, lo, hi - 1), f[hi])

(* ------------------------------ kernels --------------------------------- *)
\* a kernel given by integer tables of real and imaginary parts over den
Mat(N, den, re, im) ==
  Array([i \in 0..(N - 1) |-> Array([j \in 0..(N - 1) |->
      Cx(Q(re[i + 1][j + 1], den), Q(im[i + 1][j + 1], den))])])
Zeros(N) == [i \in 1..N |-> [j \in 1..N |-> 0]]

KernelNames == {"diag100", "eye3", "real6", "cplx5", "oblique4"}

KernelN(k) ==
  CASE k = "diag100" -> 3
    [] k = "eye3" -> 3
    [] k = "real6" -> 6
    [] k = "cplx5" -> 5
    [] k = "oblique4" -> 4

\* numpy dtype of the array
KernelDtype(k) == IF k = "cplx5" THEN "complex128" ELSE "float64"

KernelMatrix(k) ==
  CASE k = "diag100" ->
         Mat(3, 1, <<<<1, 0, 0>>, <<0, 0, 0>>, <<0, 0, 0>>>>, Zeros(3))
    [] k = "eye3" ->
         Mat(3, 1, <<<<1, 0, 0>>, <<0, 1, 0>>, <<0, 0, 1>>>>, Zeros(3))
    [] k = "real6" ->
         Mat(6, 125, << <<80, 0, 36, 48, 0, 0>>,
                        <<0, 80, 48, -36, 0, 0>>,
                        <<36, 48, 45, 0, 0, 0>>,
                        <<48, -36, 0, 45, 0, 0>>,
                        <<0, 0, 0, 0, 125, 0>>,
                        <<0, 0, 0, 0, 0, 125>> >>, Zeros(6))
    [] k = "cplx5" ->
         Mat(5, 125, << <<80, 0, 36, 0, 0>>,
                        <<0, 80, 0, 36, 0>>,
                        <<36, 0, 45, 0, 0>>,
                        <<0, 36, 0, 45, 0>>,
                        <<0, 0, 0, 0, 125>> >>,
                     << <<0, 0, 0, -48, 0>>,
                        <<0, 0, -48, 0, 0>>,
                        <<0, 48, 0, 0, 0>>,
                        <<48, 0, 0, 0, 0>>,
                        <<0, 0, 0, 0, 0>> >>)
    [] k = "oblique4" ->
         Mat(4, 4, << <<3, -1, -2, 0>>,
                      <<-1, 3, -2, 0>>,
                      <<-1, -1, 2, 0>>,
                      <<-1, -1, -2, 4>> >>, Zeros(4))

Len0(M) == Cardinality(DOMAIN M)
IsHermitian(M) ==
  \A i \in DOMAIN M : \A j \in DOMAIN M : M[i][j] = Conj(M[j][i])
IsProjection(M) ==
  LET N == Len0(M)
  IN  \A i \in DOMAIN M : \A j \in DOMAIN M :
        CSum([k \in 0..(N - 1) |-> CMul(M[i][k], M[k][j])], 0, N - 1) = M[i][j]
\* np.trace(K), real part
Trace(M) == RSum([i \in DOMAIN M |-> Re(M[i][i])], 0, Len0(M) - 1)
\* rank = np.rint(np.trace(K)).astype(int)
Rank(M) == RRint(Trace(M))
\* K.diagonal().real
DiagReal(M) == Array([i \in DOMAIN M |-> Re(M[i][i])])

(* ------------------------------- state ---------------------------------- *)
VARIABLES
  kernel,       \* which kernel the caller's dpp object holds
  kernel_type,  \* dpp.kernel_type
  projection,   \* dpp.projection
  mode,         \* params.get("mode")
  sizeArg,      \* params.get("size")
  seed,         \* random_state argument
  entry,        \* the function the caller calls: the dispatcher or a sampler
  heap,         \* the arrays: "K" the caller's kernel, "A" the Cholesky copy
  Aref,         \* the array the local name A is bound to
  computed,     \* which of dpp.compute_K / dpp.compute_L has been called
  callNo,       \* number of the current call
  pc,           \* "call", "sampler", "loop", "done", "error"
  sampler,      \* the routine selected by the dispatcher
  err,          \* the exception that ended the call
  errAt,        \* the routine that raised it
  result,       \* the returned list
  prevResult,   \* what the previous call ended with: <<err, result>>
  stream,       \* values the random source has produced, in order
  rngPos,       \* position of the call's RandomState in stream
  draws,        \* number of rng.choice calls of the current call
  rank, size, it,
  ground_set, d,            \* Cholesky locals
  rem, sample, norm_2, c,   \* Gram-Schmidt locals (rem, sample also Schur)
  schur, K1                 \* Schur locals

inputs == <<kernel, kernel_type, projection, mode, sizeArg, seed, entry>>
rngVars == <<stream, rngPos, draws>>
cholVars == <<Aref, ground_set, d>>
gsVars == <<norm_2, c>>
schurVars == <<schur, K1>>
locals == <<rank, size, it, cholVars, rem, sample, gsVars, schurVars>>
vars == <<inputs, heap, computed, callNo, pc, sampler, err, errAt, result,
          prevResult, rngVars, locals>>

None == "None"
Unset == <<>>

K == heap["K"]
A == heap[Aref]
N == Len0(K)

Modes == {None, "GS", "Chol", "Schur", "QR"}
KernelTypes == {"correlation", "likelihood"}
\* None, an int, a RandomState instance, anything else
Seeds == {None, "int", "RandomState", "str"}
\* params.get("size") when the caller gave no size (None)
NoSize == -1
SizeArgs == {NoSize} \cup 0..MaxSizeArg

Samplers == {"GS", "Chol", "Schur"}
\* the kernels a dpp object is built on in the calls through the dispatcher
DispatchKernels == {"diag100", "eye3", "oblique4"}
\* the samplers whose documentation admits the kernel
SamplersFor(k) == IF IsHermitian(KernelMatrix(k)) THEN Samplers ELSE {"Schur"}

\* the caller calls projection_kernel_sampler(dpp, random_state, size=, mode=)
InitDispatcherCall ==
  /\ entry = "dispatcher"
  /\ kernel \in DispatchKernels
  /\ kernel_type \in KernelTypes
  /\ projection \in BOOLEAN
  /\ mode \in Modes
  /\ sampler = None
  /\ pc = "call"

\* the caller calls one of the samplers: sampler(K, size=, random_state=)
InitSamplerCall ==
  /\ entry = "sampler"
  /\ kernel \in KernelNames
  /\ kernel_type = "correlation"
  /\ projection = TRUE
  /\ mode = None
  /\ sampler \in SamplersFor(kernel)
  /\ pc = "sampler"

Init ==
  /\ InitDispatcherCall \/ InitSamplerCall
  /\ sizeArg \in SizeArgs
  /\ seed \in Seeds
  /\ heap = [b \in {"K", "A"} |-> IF b = "K" THEN KernelMatrix(kernel) ELSE Unset]
  /\ Aref = "A"
  /\ computed = "none"
  /\ callNo = 1
  /\ err = None /\ errAt = None
  /\ result = Unset /\ prevResult = Unset
  /\ stream = <<>> /\ rngPos = 0 /\ draws = 0
  /\ rank = 0 /\ size = 0 /\ it = 0
  /\ ground_set = Unset /\ d = Unset
  /\ rem = Unset /\ sample = Unset /\ norm_2 = Unset /\ c = Unset
  /\ schur = Unset /\ K1 = Unset

(* ------------------------------ dispatcher ------------------------------ *)
\* Python truth value of size: None and 0 are false
\* variant: `size is None` in place of `not size`
IsNotNone(s) == s # NoSize
Truthy(s) == s # NoSize /\ s # 0

\* variant: the table of the orthogonal selector, default "Schur"
select_generic_with_orthogonal_table(m) ==
  IF m \in {"GS", "Chol", "Schur"} THEN m ELSE "Schur"
\* samplers = {"Schur": ...}; samplers.get(mode, samplers["Schur"])
select_generic_projection_kernel_sampler(m) ==
  IF m = "Schur" THEN "Schur" ELSE "Schur"

\* variant: default "Schur"
select_orthogonal_default_Schur(m) ==
  IF m \in {"GS", "Chol", "Schur"} THEN m ELSE "Schur"
\* samplers = {"GS": ..., "Chol": ..., "Schur": ...}; samplers.get(mode, samplers["GS"])
select_orthogonal_projection_kernel_sampler(m) ==
  IF m \in {"GS", "Chol", "Schur"} THEN m ELSE "GS"

Raise(e, at) ==
  /\ pc' = "error"
  /\ err' = e
  /\ errAt' = at

\* projection_kernel_sampler up to the call of the selected sampler
Dispatch ==
  /\ pc = "call"
  /\ UNCHANGED <<inputs, heap, callNo, result, prevResult, rngVars, locals>>
  /\ IF ~projection
       THEN Raise("AssertionError", "dispatcher") /\ UNCHANGED <<computed, sampler>>
     ELSE IF kernel_type = "likelihood" /\ ~Truthy(sizeArg)
       THEN Raise("ValueError", "dispatcher") /\ UNCHANGED <<computed, sampler>>
     ELSE /\ computed' = IF kernel_type = "likelihood" THEN "L" ELSE "K"
          /\ sampler' = IF IsHermitian(K)
                          THEN select_orthogonal_projection_kernel_sampler(mode)
                          ELSE select_generic_projection_kernel_sampler(mode)
          /\ pc' = "sampler"
          /\ UNCHANGED <<err, errAt>>

(* ---------------------------- random source ----------------------------- *)
\* check_random_state(seed): the position in stream of the RandomState it
\* returns (the global one and a given instance go on from where they are, a
\* new RandomState(seed) starts its stream), or a ValueError
\* variant: an int seed continues the shared stream instead of reseeding
check_random_state_shared(s) ==
  IF s \in {None, "int", "RandomState"} THEN [raises |-> FALSE, pos |-> rngPos]
  ELSE [raises |-> TRUE, pos |-> rngPos]
check_random_state(s) ==
  IF s = None THEN [raises |-> FALSE, pos |-> rngPos]
  ELSE IF s = "int" THEN [raises |-> FALSE, pos |-> 0]
  ELSE IF s = "RandomState" THEN [raises |-> FALSE, pos |-> rngPos]
  ELSE [raises |-> TRUE, pos |-> rngPos]

\* p = np.abs(w) / tot for the candidate weights w (a sequence)
\* variant: uniform weights over the candidates
ProbsUniform(w, tot) == Array([k \in 1..Len(w) |-> Q(1, Len(w))])
Probs(w, tot) == Array([k \in 1..Len(w) |-> RDiv(RAbs(w[k]), RInt(tot))])
\* p.cumsum()
Cdf(p) == Array([k \in 1..Len(p) |-> RSum(p, 1, k)])
\* rng.choice(cands, p=p) for the uniform variate u: cdf.searchsorted(u, side="right")
Choice(cands, p, u) ==
  LET cdf == Cdf(p)
  IN  cands[1 + Cardinality({k \in 1..Len(p) : RLe(cdf[k], u)})]
\* one uniform variate in the interval of every candidate of positive probability
Variates(p) ==
  LET cdf == Cdf(p)
  IN  {IF k = 1 THEN R0 ELSE cdf[k - 1] : k \in {i \in 1..Len(p) : p[i] # R0}}
\* rng.choice rejects probabilities that do not sum to 1
ValidProbs(p) == RSum(p, 1, Len(p)) = R1
\* the next value of the random source: replayed when the stream has it
NextVariates(p) ==
  IF rngPos < Len(stream) THEN {stream[rngPos + 1]} ELSE Variates(p)
Consume(u) ==
  /\ stream' = IF rngPos < Len(stream) THEN stream ELSE Append(stream, u)
  /\ rngPos' = rngPos + 1
  /\ draws' = draws + 1

(* --------------------------- sampler prologue --------------------------- *)
\* the indices r with rem[r], ascending: ground_set[rem]
RECURSIVE Ascending(_, _, _)
Ascending(S, lo, hi) ==
  IF hi < lo THEN <<>>
  ELSE IF lo \in S THEN <<lo>> \o Ascending(S, lo + 1, hi)
  ELSE Ascending(S, lo + 1, hi)
Remaining(m) == Ascending({r \in DOMAIN m : m[r]}, 0, Len0(m) - 1)

\* sample.tolist(), ground_set[:size].tolist()
ToList(f, n) == [k \in 1..n |-> f[k - 1]]

Return(lst) ==
  /\ pc' = "done"
  /\ result' = lst

\* the array A = K.copy() is bound to: a new one
\* variant: A = K, no copy
KNoCopy == "K"
KCopy == "A"

\* assert size <= rank
\* variant: no assertion
SizeUnchecked(sz, rk) == TRUE
SizeAccepted(sz, rk) == sz <= rk

\* lines from rng = check_random_state(...) to the first loop test
Enter ==
  /\ pc = "sampler"
  /\ UNCHANGED <<inputs, computed, callNo, sampler, prevResult, stream>>
  /\ LET rs == check_random_state(seed)
         rk == Rank(K)
         sz == IF sizeArg = NoSize THEN rk ELSE sizeArg
     IN
     IF rs.raises
       THEN /\ Raise("ValueError", sampler)
            /\ UNCHANGED <<heap, result, rngPos, draws, locals>>
     ELSE IF ~SizeAccepted(sz, rk)
       THEN /\ Raise("AssertionError", sampler)
            /\ rngPos' = rs.pos /\ draws' = 0
            /\ rank' = rk /\ size' = sz
            /\ UNCHANGED <<heap, result, it, cholVars, rem, sample, gsVars, schurVars>>
     ELSE
       /\ rngPos' = rs.pos /\ draws' = 0
       /\ rank' = rk /\ size' = sz /\ it' = 0
       /\ UNCHANGED <<err, errAt>>
       /\ IF sz = 0 THEN Return(<<>>) ELSE pc' = "loop" /\ UNCHANGED result
       /\ CASE sampler = "Chol" ->
                 /\ Aref' = KCopy
                 /\ heap' = [heap EXCEPT ![KCopy] = K]
                 /\ d' = DiagReal(K)
                 /\ ground_set' = [i \in 0..(N - 1) |-> i]
                 /\ UNCHANGED <<rem, sample, gsVars, schurVars>>
            [] sampler = "GS" ->
                 /\ rem' = [i \in 0..(N - 1) |-> TRUE]
                 /\ sample' = [k \in 0..(sz - 1) |-> 0]
                 /\ norm_2' = DiagReal(K)
                 /\ c' = [r \in 0..(N - 1) |-> [k \in 0..(sz - 1) |-> C0]]
                 /\ UNCHANGED <<heap, cholVars, schurVars>>
            [] sampler = "Schur" ->
                 /\ rem' = [i \in 0..(N - 1) |-> TRUE]
                 /\ sample' = [k \in 0..(sz - 1) |-> 0]
                 /\ schur' = DiagReal(K)
                 /\ K1' = [a \in 0..(sz - 1) |-> [b \in 0..(sz - 1) |-> C0]]
                 /\ UNCHANGED <<heap, cholVars, gsVars>>

(* -------------------------- Gram-Schmidt sampler ------------------------ *)
\* c[rem, it] = K[rem, j] - c[rem, :it].dot(c[j, :it]); c[rem, it] /= np.sqrt(norm_2[j])
GSColumn(cc, remn, j) ==
  Array([r \in DOMAIN cc |->
     IF remn[r]
       THEN [cc[r] EXCEPT ![it] =
               CDiv(CSub(K[r][j],
                         CSum([k \in 0..(it - 1) |-> CMul(cc[r][k], cc[j][k])], 0, it - 1)),
                    CReal(RSqrt(norm_2[j])))]
       ELSE cc[r]])

\* norm_2[rem] -= c[rem, it] ** 2
\* variant: norm_2 is left as it is
GSNoDeflate(nrm, cc, remn) == nrm
GSDeflate(nrm, cc, remn) ==
  Array([r \in DOMAIN nrm |->
     IF remn[r] THEN RSub(nrm[r], Re(CMul(cc[r][it], cc[r][it]))) ELSE nrm[r]])

\* one iteration of the loop of orthogonal_projection_kernel_sampler_GS
\* (\E x \in {e} names the value of e, computed where it is named)
GSStep ==
  /\ pc = "loop" /\ sampler = "GS"
  /\ UNCHANGED <<inputs, heap, computed, callNo, sampler, prevResult,
                 rank, size, cholVars, schurVars>>
  /\ \E cands \in {Remaining(rem)} :
     \E p \in {Probs(Array([k \in 1..Len(cands) |-> norm_2[cands[k]]]), rank - it)} :
     IF ~ValidProbs(p)
       THEN /\ Raise("ValueError", "GS")
            /\ UNCHANGED <<result, rngVars, it, rem, sample, gsVars>>
     ELSE \E u \in NextVariates(p) :
          \E j \in {Choice(cands, p, u)} :
          \E remn \in {[rem EXCEPT ![j] = FALSE]} :
          \E samplen \in {[sample EXCEPT ![it] = j]} :
       /\ Consume(u)
       /\ sample' = samplen
       /\ rem' = remn
       /\ IF it = size - 1
            THEN /\ Return(ToList(samplen, size))
                 /\ UNCHANGED <<err, errAt, it, gsVars>>
          ELSE \E cn \in {GSColumn(c, remn, j)} :
               /\ c' = cn
               /\ IF KernelDtype(kernel) = "complex128"
                    \* numpy refuses the in-place subtraction of the complex
                    \* array c[rem, it] ** 2 from the float array norm_2
                    THEN /\ Raise("UFuncTypeError", "GS")
                         /\ UNCHANGED <<result, it, norm_2>>
                    ELSE /\ norm_2' = GSDeflate(norm_2, cn, remn)
                         /\ it' = it + 1
                         /\ UNCHANGED <<pc, err, errAt, result>>

(* ---------------------------- Cholesky sampler -------------------------- *)
\* A[T1, j_t] = A[T1, t_j] with T1 = slice(t + 1, N)
BottomSwap(M, j, t) ==
  Array([r \in DOMAIN M |->
     IF r > t THEN [M[r] EXCEPT ![j] = M[r][t], ![t] = M[r][j]] ELSE M[r]])

\* tmp = A[J1, j].copy(); np.conj(A[t, J1], out=A[J1, j]); np.conj(tmp, out=A[t, J1])
InnerSwap(M, j, t) ==
  Array([r \in DOMAIN M |->
     IF j < r /\ r < t THEN [M[r] EXCEPT ![j] = Conj(M[t][r])]
     ELSE IF r = t
       THEN Array([col \in DOMAIN M[r] |->
               IF j < col /\ col < t THEN Conj(M[col][j]) ELSE M[r][col]])
     ELSE M[r]])

\* A[t, j] = A[t, j].conj()
CornerSwap(M, j, t) == [M EXCEPT ![t][j] = Conj(M[t][j])]

\* A[j_t, j_t] = A[t_j, t_j].real
DiagonalSwap(M, j, t) ==
  [M EXCEPT ![j][j] = CReal(Re(M[t][t])), ![t][t] = CReal(Re(M[j][j]))]

\* A[j_t, :j] = A[t_j, :j]
LeftSwap(M, j, t) ==
  Array([r \in DOMAIN M |->
     IF r = j
       THEN Array([col \in DOMAIN M[r] |-> IF col < j THEN M[t][col] ELSE M[r][col]])
     ELSE IF r = t
       THEN Array([col \in DOMAIN M[r] |-> IF col < j THEN M[j][col] ELSE M[r][col]])
     ELSE M[r]])

\* Hermitian swap of indices j and t of A
HermitianSwap(M, j, t) ==
  LeftSwap(DiagonalSwap(CornerSwap(InnerSwap(BottomSwap(M, j, t), j, t), j, t), j, t), j, t)

\* ground_set[j_t] = ground_set[t_j]; d[j_t] = d[t_j]
SwapPositions(f, j, t) == [f EXCEPT ![j] = f[t], ![t] = f[j]]

\* A[J2, j] -= A[J2, :j].dot(A[j, :j].conj()); A[J2, j] /= A[j, j]
ChoColumn(M, j) ==
  Array([r \in DOMAIN M |->
     IF r > j
       THEN [M[r] EXCEPT ![j] =
               CDiv(CSub(M[r][j],
                         CSum([k \in 0..(j - 1) |-> CMul(M[r][k], Conj(M[j][k]))], 0, j - 1)),
                    M[j][j])]
       ELSE M[r]])

\* d[J2] -= A[J2, j].real ** 2 + A[J2, j].imag ** 2, or d[J2] -= A[J2, j] ** 2
ChoDeflate(dd, M, j, dtype) ==
  Array([r \in DOMAIN dd |->
     IF r > j
       THEN IF dtype = "complex128"
              THEN RSub(dd[r], RAdd(RMul(Re(M[r][j]), Re(M[r][j])),
                                    RMul(Im(M[r][j]), Im(M[r][j]))))
              ELSE RSub(dd[r], Re(CMul(M[r][j], M[r][j])))
       ELSE dd[r]])

\* one iteration of the loop of orthogonal_projection_kernel_sampler_Chol
\* (the loop index j of the source is it)
CholStep ==
  /\ pc = "loop" /\ sampler = "Chol"
  /\ UNCHANGED <<inputs, computed, callNo, sampler, prevResult,
                 rank, size, Aref, rem, sample, gsVars, schurVars>>
  /\ \E cands \in {Array([k \in 1..(N - it) |-> it + k - 1])} :
     \E p \in {Probs(Array([k \in 1..(N - it) |-> d[it + k - 1]]), rank - it)} :
     IF ~ValidProbs(p)
       THEN /\ Raise("ValueError", "Chol")
            /\ UNCHANGED <<heap, result, rngVars, it, ground_set, d>>
     ELSE \E u \in NextVariates(p) :
          \E t \in {Choice(cands, p, u)} :
          \E gsn \in {SwapPositions(ground_set, it, t)} :
          \E dn \in {SwapPositions(d, it, t)} :
          \E As \in {[HermitianSwap(A, it, t) EXCEPT ![it][it] = CReal(RSqrt(dn[it]))]} :
       /\ Consume(u)
       /\ ground_set' = gsn
       /\ IF it = size - 1
            THEN /\ heap' = [heap EXCEPT ![Aref] = As]
                 /\ d' = dn
                 /\ Return(ToList(gsn, size))
                 /\ UNCHANGED <<err, errAt, it>>
            ELSE \E An \in {ChoColumn(As, it)} :
                 /\ heap' = [heap EXCEPT ![Aref] = An]
                 /\ d' = ChoDeflate(dn, An, it, KernelDtype(kernel))
                 /\ it' = it + 1
                 /\ UNCHANGED <<pc, err, errAt, result>>

(* ------------------------------ Schur sampler --------------------------- *)
\* inner1d(x, y) of two vectors over 0..n-1: the sum of their products
inner1d(x, y, n) == CSum(Array([k \in 0..(n - 1) |-> CMul(x[k], y[k])]), 0, n - 1)

\* it == 0: K1[0, 0] = 1.0 / K[j, j]
SchurInverse0(K1o, j) == [K1o EXCEPT ![0][0] = CDiv(C1, K[j][j])]

\* it == 1: K1[:2, :2] = [[K[j, j], -K[j, i]], [-K[j, i], K[i, i]]]
\*          K1[:2, :2] /= K[i, i] * K[j, j] - K[j, i] ** 2
SchurInverse1(K1o, i, j) ==
  LET det == CSub(CMul(K[i][i], K[j][j]), CMul(K[j][i], K[j][i]))
  IN  Array([a \in DOMAIN K1o |-> Array([b \in DOMAIN K1o[a] |->
        IF a = 0 /\ b = 0 THEN CDiv(K[j][j], det)
        ELSE IF a = 0 /\ b = 1 THEN CDiv(CNeg(K[j][i]), det)
        ELSE IF a = 1 /\ b = 0 THEN CDiv(CNeg(K[j][i]), det)
        ELSE IF a = 1 /\ b = 1 THEN CDiv(K[i][i], det)
        ELSE K1o[a][b]])])

\* 2 <= it < size - 1: the Woodbury update of K1[Y, Y] with Y = slice(0, it)
SchurWoodbury(K1o, smp, j, n) ==
  LET tmp1 == Array([a \in 0..(n - 1) |->
                 CSum([b \in 0..(n - 1) |-> CMul(K1o[a][b], K[smp[b]][j])], 0, n - 1)])
      schur_j == CSub(K[j][j],
                      CSum([a \in 0..(n - 1) |-> CMul(K[j][smp[a]], tmp1[a])], 0, n - 1))
      tmp2 == Array([b \in 0..(n - 1) |->
                 CDiv(CSum([a \in 0..(n - 1) |-> CMul(K[j][smp[a]], K1o[a][b])], 0, n - 1),
                      schur_j)])
  IN  Array([a \in DOMAIN K1o |-> Array([b \in DOMAIN K1o[a] |->
        IF a < n /\ b < n THEN CAdd(K1o[a][b], CMul(tmp1[a], tmp2[b]))
        ELSE IF a < n /\ b = n THEN CDiv(CNeg(tmp1[a]), schur_j)
        ELSE IF a = n /\ b < n THEN CNeg(tmp2[b])
        ELSE IF a = n /\ b = n THEN CDiv(C1, schur_j)
        ELSE K1o[a][b]])])

\* schur[rem] = K[rem, rem] - inner1d(K_iY.dot(K1[Y, Y]), K_Yi.T, axis=1), Y = slice(0, n)
SchurComplements(sch, K1n, remn, smp, n) ==
  Array([r \in DOMAIN sch |->
     IF remn[r]
       THEN LET K_iY_K1 == Array([b \in 0..(n - 1) |->
                              CSum([a \in 0..(n - 1) |-> CMul(K[r][smp[a]], K1n[a][b])],
                                   0, n - 1)])
                K_Yi == Array([b \in 0..(n - 1) |-> K[smp[b]][r]])
            IN  Re(CSub(K[r][r], inner1d(K_iY_K1, K_Yi, n)))
       ELSE sch[r]])

\* one iteration of the loop of projection_kernel_sampler_Schur
SchurStep ==
  /\ pc = "loop" /\ sampler = "Schur"
  /\ UNCHANGED <<inputs, heap, computed, callNo, sampler, prevResult,
                 rank, size, cholVars, gsVars>>
  /\ \E cands \in {Remaining(rem)} :
     \E p \in {Probs(Array([k \in 1..Len(cands) |-> schur[cands[k]]]), rank - it)} :
     IF ~ValidProbs(p)
       THEN /\ Raise("ValueError", "Schur")
            /\ UNCHANGED <<result, rngVars, it, rem, sample, schurVars>>
     ELSE \E u \in NextVariates(p) :
          \E j \in {Choice(cands, p, u)} :
          \E remn \in {[rem EXCEPT ![j] = FALSE]} :
          \E samplen \in {[sample EXCEPT ![it] = j]} :
       /\ Consume(u)
       /\ sample' = samplen
       /\ rem' = remn
       /\ UNCHANGED <<err, errAt>>
       /\ IF it = 0 \/ it = 1 \/ it < size - 1
            THEN \E K1n \in {IF it = 0 THEN SchurInverse0(K1, j)
                             ELSE IF it = 1 THEN SchurInverse1(K1, samplen[0], j)
                             ELSE SchurWoodbury(K1, samplen, j, it)} :
                 /\ K1' = K1n
                 /\ schur' = SchurComplements(schur, K1n, remn, samplen, it + 1)
                 /\ IF it = size - 1
                      THEN Return(ToList(samplen, size)) /\ UNCHANGED it
                      ELSE it' = it + 1 /\ UNCHANGED <<pc, result>>
            ELSE /\ Return(ToList(samplen, size))
                 /\ UNCHANGED <<it, schurVars>>

(* ------------------------------- caller --------------------------------- *)
\* the caller repeats a seeded call with the same arguments
Recall ==
  /\ pc \in {"done", "error"}
  /\ callNo < MaxCalls
  /\ seed = "int"
  /\ callNo' = callNo + 1
  /\ prevResult' = <<err, result>>
  /\ pc' = IF entry = "dispatcher" THEN "call" ELSE "sampler"
  /\ err' = None /\ errAt' = None
  /\ result' = Unset
  /\ UNCHANGED <<inputs, heap, computed, sampler, rngVars, locals>>

Next == Dispatch \/ Enter \/ CholStep \/ GSStep \/ SchurStep \/ Recall

Spec == Init /\ [][Next]_vars

(* ============================== properties ============================== *)
K0 == KernelMatrix(kernel)
Rank0 == Rank(K0)
N0 == KernelN(kernel)
Finished == pc \in {"done", "error"}
ResultSet == {result[k] : k \in 1..Len(result)}

\* the kernels of the model are projections of integer trace
KernelsAreProjections ==
  /\ IsProjection(K0)
  /\ Trace(K0) = RInt(Rank0)
  /\ N0 = Len0(K0)

\* a call the sampler accepts: a usable seed, and no size or a size <= rank
AcceptedCall ==
  /\ sampler # None /\ errAt # "dispatcher"
  /\ seed # "str"
  /\ (sizeArg = NoSize \/ sizeArg <= Rank0)
\* the shape of a list that is returned
ReturnedListShape ==
  pc = "done" =>
    /\ Len(result) = IF sizeArg = NoSize THEN Rank0 ELSE sizeArg
    /\ \A k \in 1..Len(result) : result[k] \in 0..(N0 - 1)
    /\ \A k \in 1..Len(result) : \A l \in 1..Len(result) :
         k # l => result[k] # result[l]
(* C1: every call a sampler accepts returns a list: of round(trace(K))      *)
(* entries when no size was given, of size entries when a size <= rank was  *)
(* given, the entries pairwise distinct integers in [0, N).                 *)
C1_ReturnedList ==
  /\ (AcceptedCall /\ Finished) => pc = "done"
  /\ ReturnedListShape
\* the calls of C1 that end in an error
C1_GSComplexRaises ==
  /\ AcceptedCall /\ kernel = "cplx5" /\ sampler = "GS" /\ sizeArg = NoSize
  /\ pc = "error" /\ err = "UFuncTypeError" /\ it = 0 /\ draws = 1

\* the residual weights of the remaining indices
Weights ==
  IF sampler = "Chol" THEN Array([k \in 1..(N - it) |-> d[it + k - 1]])
  ELSE LET cands == Remaining(rem)
       IN  IF sampler = "GS" THEN Array([k \in 1..Len(cands) |-> norm_2[cands[k]]])
           ELSE Array([k \in 1..Len(cands) |-> schur[cands[k]]])
WeightsSumToRankMinusIt ==
  /\ RSum(Weights, 1, Len(Weights)) = RInt(rank - it)
  /\ \A k \in 1..Len(Weights) : RLe(R0, Weights[k])
(* C2: at every step it, just before the random choice, the residual weights *)
(* of the remaining indices are non-negative and sum to rank - it.           *)
C2_ResidualWeights == pc = "loop" => WeightsSumToRankMinusIt
\* the same, for the real symmetric kernels only
C2_ResidualWeightsRealSymmetric ==
  (pc = "loop" /\ IsHermitian(K0) /\ KernelDtype(kernel) = "float64")
    => WeightsSumToRankMinusIt

SizeTooLarge == sizeArg # NoSize /\ sizeArg > Rank0
(* C3: a call with size > rank ends in an error before the loop: nothing is *)
(* drawn from the random source, no auxiliary state exists and the kernel   *)
(* is unchanged.                                                            *)
C3_SizeAboveRankFails ==
  (SizeTooLarge /\ pc \notin {"call", "sampler"}) =>
    /\ pc = "error"
    /\ draws = 0 /\ stream = <<>> /\ rngPos = 0
    /\ heap["A"] = Unset /\ ground_set = Unset /\ d = Unset
    /\ rem = Unset /\ sample = Unset /\ norm_2 = Unset /\ c = Unset
    /\ schur = Unset /\ K1 = Unset
    /\ K = K0
C3_Witness ==
  /\ SizeTooLarge /\ pc = "error" /\ err = "AssertionError"
  /\ errAt = "Chol" /\ kernel = "real6" /\ callNo = 2

\* the dispatcher raised before compute_L and before selecting a sampler
DispatcherValueError ==
  /\ pc = "error" /\ err = "ValueError" /\ errAt = "dispatcher"
  /\ computed = "none" /\ sampler = None
(* C4: on a projection dpp, the dispatcher ends in a ValueError when the    *)
(* kernel is in likelihood form and no size is supplied, before compute_L   *)
(* and before any sampler is selected; with a size supplied, or in          *)
(* correlation form, the dispatcher raises no such error.                   *)
C4_SizeMandatoryForLikelihood ==
  /\ (entry = "dispatcher" /\ projection /\ pc # "call"
        /\ kernel_type = "likelihood" /\ sizeArg = NoSize)
       => DispatcherValueError
  /\ (entry = "dispatcher" /\ projection
        /\ (sizeArg # NoSize \/ kernel_type = "correlation"))
       => ~(err = "ValueError" /\ errAt = "dispatcher")
(* C4, amended: the same with a size of 0 counted as no size: the          *)
(* ValueError is raised when the size is absent or 0, and is not raised    *)
(* when a non-zero size is supplied or the kernel is in correlation form.  *)
C4_SizeMandatoryForLikelihoodAmended ==
  /\ (entry = "dispatcher" /\ projection /\ pc # "call"
        /\ kernel_type = "likelihood" /\ sizeArg \in {NoSize, 0})
       => DispatcherValueError
  /\ (entry = "dispatcher" /\ projection
        /\ (sizeArg \notin {NoSize, 0} \/ kernel_type = "correlation"))
       => ~(err = "ValueError" /\ errAt = "dispatcher")
C4_Witness ==
  /\ entry = "dispatcher" /\ projection /\ kernel_type = "likelihood"
  /\ sizeArg = 0 /\ DispatcherValueError /\ callNo = 2

(* C5: for a non-Hermitian kernel the dispatcher selects the Schur sampler  *)
(* whatever the mode; GS and Chol are never selected or run.                *)
C5_NonHermitianSelectsSchur ==
  (entry = "dispatcher" /\ ~IsHermitian(K0)) =>
    /\ sampler \in {None, "Schur"}
    /\ errAt \notin {"GS", "Chol"}
    /\ ground_set = Unset /\ norm_2 = Unset
C5_Witness ==
  /\ entry = "dispatcher" /\ kernel = "oblique4" /\ mode = "Chol"
  /\ sampler = "Schur" /\ pc = "done" /\ Len(result) = 3

(* C6: for a Hermitian kernel the dispatcher maps "GS", "Chol" and "Schur"  *)
(* to their samplers and an absent or unrecognized mode to Gram-Schmidt,    *)
(* without raising an error.                                                *)
C6_HermitianModeTable ==
  (entry = "dispatcher" /\ IsHermitian(K0)) =>
    /\ sampler # None =>
         sampler = CASE mode = "GS" -> "GS"
                     [] mode = "Chol" -> "Chol"
                     [] mode = "Schur" -> "Schur"
                     [] OTHER -> "GS"
    /\ (projection /\ pc # "call"
          /\ (kernel_type = "correlation" \/ sizeArg \notin {NoSize, 0}))
         => (sampler # None /\ errAt # "dispatcher")
C6_Witness ==
  /\ entry = "dispatcher" /\ kernel = "eye3" /\ mode = "QR"
  /\ sampler = "GS" /\ pc = "done" /\ Len(result) = 3

(* C7: a call repeated with the same kernel, size, mode and integer seed    *)
(* ends as the first one did, and a call consumes one weighted choice of    *)
(* the random source per conditioning step.                                 *)
C7_Determinism ==
  /\ (callNo > 1 /\ Finished /\ seed = "int") => <<err, result>> = prevResult
  /\ pc = "loop" => draws = it
  /\ pc = "done" => draws = size
C7_Witness ==
  /\ callNo = 2 /\ pc = "done" /\ seed = "int"
  /\ kernel = "real6" /\ sampler = "GS" /\ result = <<3, 5, 0, 4>>

SelectedWeights ==
  IF sampler = "Chol"
    THEN IF d = Unset THEN {}
         ELSE {d[k] : k \in 0..((IF pc = "done" THEN size ELSE it) - 1)}
  ELSE IF sampler = "GS"
    THEN {norm_2[r] : r \in {q \in DOMAIN rem : ~rem[q]}}
  ELSE IF sampler = "Schur"
    THEN {schur[r] : r \in {q \in DOMAIN rem : ~rem[q]}}
  ELSE {}
(* C8: on a diagonal 0/1 kernel with default size every sampler returns     *)
(* exactly the indices i with K[i,i] = 1, in some order; an index whose     *)
(* residual weight is 0 at a step is never selected at that step (the       *)
(* weight of a selected index stays as it was when it was selected).        *)
C8_DiagonalKernels ==
  /\ (kernel \in {"diag100", "eye3"} /\ sizeArg = NoSize /\ pc = "done") =>
       /\ ResultSet = {i \in 0..(N0 - 1) : K0[i][i] = C1}
       /\ Len(result) = Cardinality(ResultSet)
  /\ R0 \notin SelectedWeights
C8_Witness ==
  /\ kernel = "diag100" /\ sizeArg = NoSize /\ pc = "done"
  /\ sampler = "Schur" /\ result = <<0>>

\* the state a prologue allocates
FreshState ==
  CASE sampler = "Chol" ->
         /\ Aref # "K" /\ A = K
         /\ d = DiagReal(K)
         /\ ground_set = [i \in 0..(N - 1) |-> i]
    [] sampler = "GS" ->
         /\ rem = [i \in 0..(N - 1) |-> TRUE]
         /\ sample = [k \in 0..(size - 1) |-> 0]
         /\ norm_2 = DiagReal(K)
         /\ c = [r \in 0..(N - 1) |-> [k \in 0..(size - 1) |-> C0]]
    [] sampler = "Schur" ->
         /\ rem = [i \in 0..(N - 1) |-> TRUE]
         /\ sample = [k \in 0..(size - 1) |-> 0]
         /\ schur = DiagReal(K)
         /\ K1 = [a \in 0..(size - 1) |-> [b \in 0..(size - 1) |-> C0]]
(* C9: the caller's kernel is never changed; the Cholesky sampler works on  *)
(* its own copy A; every call starts from freshly created state.            *)
C9_KernelUnchanged ==
  /\ K = K0
  /\ (pc = "loop" /\ it = 0) => FreshState
C9_Witness ==
  /\ callNo = 2 /\ sampler = "Chol" /\ kernel = "cplx5"
  /\ pc = "done" /\ A # K /\ size = 3

\* the number of inverse updates made: every step but a last step it >= 2
Updates == IF pc = "done" /\ size > 2 THEN size - 1 ELSE IF pc = "done" THEN size ELSE it
IsInverseBlock(n) ==
  \A a \in 0..(n - 1) : \A b \in 0..(n - 1) :
    /\ CSum(Array([k \in 0..(n - 1) |-> CMul(K1[a][k], K[sample[k]][sample[b]])]), 0, n - 1)
         = IF a = b THEN C1 ELSE C0
    /\ CSum(Array([k \in 0..(n - 1) |-> CMul(K[sample[a]][sample[k]], K1[k][b])]), 0, n - 1)
         = IF a = b THEN C1 ELSE C0
(* C10: after every inverse update of the Schur sampler the block of K1     *)
(* built so far is the inverse of K[Y, Y], Y the indices selected so far in *)
(* selection order, for every projection kernel.                            *)
C10_InverseBlock ==
  (sampler = "Schur" /\ pc \in {"loop", "done"}) => IsInverseBlock(Updates)
\* the same, for the real symmetric kernels only
C10_InverseBlockRealSymmetric ==
  (sampler = "Schur" /\ pc \in {"loop", "done"}
     /\ IsHermitian(K0) /\ KernelDtype(kernel) = "float64")
    => IsInverseBlock(Updates)

(* ------------------- the three samplers on one prefix ------------------- *)
\* The three samplers are called on the same real symmetric kernel with the
\* same size, and at every step each of them is made to select the same
\* index j: GS and Schur record it in sample[it] and rem, Chol pivots on the
\* position t that holds j in its permuted ground_set.
RealSymmetricKernels ==
  {k \in KernelNames : IsHermitian(KernelMatrix(k)) /\ KernelDtype(k) = "float64"}

InitLockstep ==
  /\ entry = "lockstep"
  /\ kernel \in RealSymmetricKernels
  /\ kernel_type = "correlation"
  /\ projection = TRUE
  /\ mode = None
  /\ sampler = None
  /\ pc = "sampler"
  /\ sizeArg \in SizeArgs
  /\ seed = None
  /\ heap = [b \in {"K", "A"} |-> IF b = "K" THEN KernelMatrix(kernel) ELSE Unset]
  /\ Aref = "A"
  /\ computed = "none"
  /\ callNo = 1
  /\ err = None /\ errAt = None
  /\ result = Unset /\ prevResult = Unset
  /\ stream = <<>> /\ rngPos = 0 /\ draws = 0
  /\ rank = 0 /\ size = 0 /\ it = 0
  /\ ground_set = Unset /\ d = Unset
  /\ rem = Unset /\ sample = Unset
  /\ norm_2 = Unset /\ c = Unset
  /\ schur = Unset /\ K1 = Unset

\* the prologues of the three samplers
EnterLockstep ==
  /\ pc = "sampler" /\ entry = "lockstep"
  /\ UNCHANGED <<inputs, computed, callNo, sampler, prevResult, rngVars>>
  /\ \E rk \in {Rank(K)} :
     \E sz \in {IF sizeArg = NoSize THEN rk ELSE sizeArg} :
       /\ rank' = rk /\ size' = sz
       /\ IF ~SizeAccepted(sz, rk)
            THEN /\ Raise("AssertionError", "lockstep")
                 /\ UNCHANGED <<heap, result, it, cholVars, rem, sample, gsVars, schurVars>>
            ELSE /\ it' = 0
                 /\ UNCHANGED <<err, errAt>>
                 /\ IF sz = 0 THEN Return(<<>>) ELSE pc' = "loop" /\ UNCHANGED result
                 /\ Aref' = KCopy
                 /\ heap' = [heap EXCEPT ![KCopy] = K]
                 /\ d' = DiagReal(K)
                 /\ ground_set' = [i \in 0..(N - 1) |-> i]
                 /\ rem' = [i \in 0..(N - 1) |-> TRUE]
                 /\ sample' = [k \in 0..(sz - 1) |-> 0]
                 /\ norm_2' = DiagReal(K)
                 /\ c' = [r \in 0..(N - 1) |-> [k \in 0..(sz - 1) |-> C0]]
                 /\ schur' = DiagReal(K)
                 /\ K1' = [a \in 0..(sz - 1) |-> [b \in 0..(sz - 1) |-> C0]]

\* the position of index j in Chol's ground_set[it:]
PositionOf(j) == CHOOSE t \in it..(N - 1) : ground_set[t] = j

\* one iteration of the three loops, each selecting the same index j, which
\* has a non-zero weight in each
StepLockstep ==
  /\ pc = "loop" /\ entry = "lockstep"
  /\ UNCHANGED <<inputs, computed, callNo, sampler, prevResult, rngVars,
                 rank, size, Aref, err, errAt>>
  /\ \E j \in {r \in DOMAIN rem : rem[r]} :
     \E t \in {PositionOf(j)} :
     \E remn \in {[rem EXCEPT ![j] = FALSE]} :
     \E samplen \in {[sample EXCEPT ![it] = j]} :
     \E gsn \in {SwapPositions(ground_set, it, t)} :
     \E dn \in {SwapPositions(d, it, t)} :
     \E As \in {[HermitianSwap(A, it, t) EXCEPT ![it][it] = CReal(RSqrt(dn[it]))]} :
       /\ norm_2[j] # R0 /\ schur[j] # R0 /\ d[t] # R0
       /\ sample' = samplen
       /\ rem' = remn
       /\ ground_set' = gsn
       \* Chol
       /\ IF it = size - 1
            THEN /\ heap' = [heap EXCEPT ![Aref] = As]
                 /\ d' = dn
            ELSE \E An \in {ChoColumn(As, it)} :
                 /\ heap' = [heap EXCEPT ![Aref] = An]
                 /\ d' = ChoDeflate(dn, An, it, KernelDtype(kernel))
       \* GS
       /\ IF it = size - 1
            THEN UNCHANGED gsVars
            ELSE \E cn \in {GSColumn(c, remn, j)} :
                 /\ c' = cn
                 /\ norm_2' = GSDeflate(norm_2, cn, remn)
       \* Schur
       /\ IF it = 0 \/ it = 1 \/ it < size - 1
            THEN \E K1n \in {IF it = 0 THEN SchurInverse0(K1, j)
                             ELSE IF it = 1 THEN SchurInverse1(K1, samplen[0], j)
                             ELSE SchurWoodbury(K1, samplen, j, it)} :
                 /\ K1' = K1n
                 /\ schur' = SchurComplements(schur, K1n, remn, samplen, it + 1)
            ELSE UNCHANGED schurVars
       /\ IF it = size - 1
            THEN Return(ToList(samplen, size)) /\ UNCHANGED it
            ELSE it' = it + 1 /\ UNCHANGED <<pc, result>>

NextLockstep == EnterLockstep \/ StepLockstep

SpecLockstep == InitLockstep /\ [][NextLockstep]_vars

\* Chol's first it positions hold the indices GS and Schur selected, in order
SamePrefix == \A k \in 0..(it - 1) : ground_set[k] = sample[k]
\* Chol's candidates ground_set[it:] are the indices GS and Schur have in rem
SameCandidates == {ground_set[t] : t \in it..(N - 1)} = {r \in DOMAIN rem : rem[r]}
(* C11: on a real symmetric projection kernel, when the three samplers have *)
(* selected the same indices in the same order, at step it they offer the   *)
(* same candidates, and for every remaining index r Chol's d at the         *)
(* position holding r equals GS's norm_2[r] equals Schur's schur[r], hence  *)
(* the same selection probabilities weight / (rank - it).                   *)
C11_SameWeights ==
  (entry = "lockstep" /\ pc = "loop") =>
    /\ SamePrefix
    /\ SameCandidates
    /\ \A t \in it..(N - 1) :
         /\ d[t] = norm_2[ground_set[t]]
         /\ norm_2[ground_set[t]] = schur[ground_set[t]]
         /\ RDiv(RAbs(d[t]), RInt(rank - it))
              = RDiv(RAbs(schur[ground_set[t]]), RInt(rank - it))
C11_Witness ==
  /\ entry = "lockstep" /\ pc = "loop" /\ kernel = "real6" /\ size = 4
  /\ it = 2 /\ sample[0] = 0 /\ sample[1] = 4
  /\ ground_set[2] = 2 /\ d[2] = Q(144, 625)
  /\ norm_2[2] = Q(144, 625) /\ schur[2] = Q(144, 625)
====
